---- MODULE Spec2Model ----
(***************************************************************************)
(* The streaming pipeline of HunyuanLargeLanguageModel                     *)
(* (api/core/model_runtime/model_providers/hunyuan_inside/llm/llm.py):     *)
(*                                                                         *)
(*   _invoke  ->  requests.post  ->  _process_response_sse (line by line)  *)
(*            ->  _handle_stream_chat_response (event by event)            *)
(*                                                                         *)
(* and, further down, two such invocations side by side, the message       *)
(* mapping _convert_prompt_messages_to_dicts, validate_credentials, and    *)
(* the Tencent Cloud tool (api/core/tools/provider/builtin/tencent_cloud): *)
(* SignatureBuilder.get_authorization_header, YunApiClient.send and        *)
(* TencentClsTool._invoke.  Each has its own specification; the variables  *)
(* of the operations a specification does not call stay idle.              *)
(*                                                                         *)
(* A Python string is a sequence of tokens.  A token is one character      *)
(* ("d", ":", " ", ...) or one atomic word standing for a run of           *)
(* characters the code never looks inside: the JSON texts of JsonText, the *)
(* sentinel "[DONE]", the words "stop" and "tool_calls".                   *)
(* A Python dict is a function whose DOMAIN is the set of keys present.    *)
(* A value that may be None is PyNone or, for a string, PyStr(s).          *)
(***************************************************************************)
EXTENDS Integers, Sequences, FiniteSets, TLC

VARIABLES
    pc,          \* "idle" | "streaming" | "raised" | "exhausted" | "returned"
                 \* | "abandoned"
    err,         \* the exception that ended the invocation, "" when none
    posts,       \* number of HTTP POSTs issued by requests.post
    status,      \* response.status_code, 0 before the POST
    conn,        \* the connection of the POST: "none" | "open" | "closed"
    body,        \* the decoded body of a non-streaming response, else None
    result,      \* the LLMResult returned by a non-streaming invocation
    lines,       \* the lines resp.iter_lines() has handed out so far
    e,           \* _process_response_sse: the accumulator dict
    events,      \* the events _process_response_sse has yielded so far
    tool_call,   \* _handle_stream_chat_response: the open tool call or None
    tool_calls,  \* _handle_stream_chat_response: the completed list
    chunks,      \* the LLMResultChunks yielded to the caller so far
    stream,      \* _invoke's argument stream
    has_api_key  \* whether credentials holds "api_key"

VARIABLES
    frames,          \* two streaming invocations on one object: the locals
                     \* of the generator frames
    runs,            \* and, for each invocation, what it has read and yielded
    calls,           \* the calls of get_authorization_header made so far
    prompt_messages, \* the argument of _convert_prompt_messages_to_dicts
    dict_list,       \* its return value, None before the call
    tool,            \* one invocation of TencentClsTool._invoke
    probe            \* one call of validate_credentials

\* the arguments of the invocation
args == <<stream, has_api_key>>
\* the HTTP exchange
http == <<posts, status, conn, body>>
\* the locals of _process_response_sse and what it has read and yielded
sse == <<lines, e, events>>
\* the locals of _handle_stream_chat_response and what it has yielded
agg == <<tool_call, tool_calls, chunks>>
\* one invocation of HunyuanLargeLanguageModel._invoke
invocation == <<pc, err, args, http, result, sse, agg>>
\* the message mapping
mapping == <<prompt_messages, dict_list>>

\* two streaming invocations on one object
two == <<frames, runs>>

vars == <<invocation, two, calls, mapping, tool, probe>>

----------------------------------------------------------------------------
(* Bounds of the model *)

\* lines read per invocation under Spec (one data line and one blank per event)
MaxLines == 8
\* lines read per invocation under SpecSse (any mix of lines)
MaxSseLines == 4
\* lines read by each of the two invocations under SpecTwo
MaxTwoLines == 4

----------------------------------------------------------------------------
(* Python values *)

PyNone == [none |-> TRUE]
PyStr(s) == [str |-> s]
IsStr(v) == "str" \in DOMAIN v

\* dict.get(key, default)
Get(d, key, default) == IF key \in DOMAIN d THEN d[key] ELSE default

\* {}
EmptyDict == <<>>

\* d[key] = val
DictSet(d, key, val) ==
    [k \in DOMAIN d \cup {key} |-> IF k = key THEN val ELSE d[k]]

Min(a, b) == IF a < b THEN a ELSE b
Max(a, b) == IF a > b THEN a ELSE b

\* s.find(c): the 0-based position of the first c, -1 when there is none
Find(s, c) ==
    IF \E i \in 1..Len(s) : s[i] = c
    THEN (CHOOSE i \in 1..Len(s) : s[i] = c /\ \A j \in 1..(i - 1) : s[j] # c) - 1
    ELSE -1

\* s[:n], Python's slice with a possibly negative end
SliceTo(s, n) ==
    IF n >= 0 THEN SubSeq(s, 1, Min(n, Len(s)))
    ELSE SubSeq(s, 1, Max(Len(s) + n, 0))

\* s[n:] for n >= 0
SliceFrom(s, n) == SubSeq(s, n + 1, Len(s))

\* s.endswith(w) for a one-token word w
EndsWith(s, w) == Len(s) > 0 /\ s[Len(s)] = w

Whitespace == {" ", "\n"}

RECURSIVE LStrip(_)
LStrip(s) == IF Len(s) > 0 /\ s[1] \in Whitespace THEN LStrip(Tail(s)) ELSE s

RECURSIVE RStrip(_)
RStrip(s) ==
    IF Len(s) > 0 /\ s[Len(s)] \in Whitespace
    THEN RStrip(SubSeq(s, 1, Len(s) - 1)) ELSE s

\* s.strip()
Strip(s) == RStrip(LStrip(s))

DigitChars == <<"0", "1", "2", "3", "4", "5", "6", "7", "8", "9">>
IsDigit(c) == \E n \in 1..10 : DigitChars[n] = c
DigitVal(c) == (CHOOSE n \in 1..10 : DigitChars[n] = c) - 1

RECURSIVE DigitsValue(_)
DigitsValue(s) ==
    IF s = <<>> THEN 0
    ELSE 10 * DigitsValue(SubSeq(s, 1, Len(s) - 1)) + DigitVal(s[Len(s)])

\* int(val): surrounding whitespace is ignored, then decimal digits are needed;
\* anything else raises ValueError
ParseInt(val) ==
    LET t == Strip(val) IN
    IF Len(t) > 0 /\ \A i \in 1..Len(t) : IsDigit(t[i])
    THEN [ok |-> TRUE, v |-> DigitsValue(t)]
    ELSE [ok |-> FALSE, v |-> 0]

----------------------------------------------------------------------------
(* _process_response_sse: one line of the response body *)

\* a byte that is not valid UTF-8: line.decode('utf-8') raises on it
BadByte == "<FF>"

\* line.decode('utf-8') succeeds
Decodes(line) == \A i \in 1..Len(line) : line[i] # BadByte

KeyData == <<"d", "a", "t", "a">>
KeyEvent == <<"e", "v", "e", "n", "t">>
KeyId == <<"i", "d">>
KeyRetry == <<"r", "e", "t", "r", "y">>

\* line[0] == ':'
IsComment(line) == line[1] = ":"

\* key = line[:colon_idx]
FieldKey(line) == SliceTo(line, Find(line, ":"))

\* val = line[colon_idx + 1:]
FieldVal(line) == SliceFrom(line, Find(line, ":") + 1)

\* the dict key a field is stored under
FieldName(key) ==
    CASE key = KeyData -> "data"
      [] key = KeyEvent -> "event"
      [] key = KeyId -> "id"
      [] key = KeyRetry -> "retry"
      [] OTHER -> ""

\* AccumulateData with a later data line replacing the earlier ones
AccumulateDataOverwrite(acc, val) == DictSet(acc, "data", val)

\* e['data'] = val, or e['data'] += '\n' + val
AccumulateData(acc, val) ==
    IF "data" \notin DOMAIN acc
    THEN DictSet(acc, "data", val)
    ELSE DictSet(acc, "data", acc["data"] \o <<"\n">> \o val)

\* The body of the loop for a line that is not blank: the accumulator after
\* the line, or the exception the line raises.
SseLine(acc, line) ==
    IF ~Decodes(line) THEN [raise |-> "UnicodeDecodeError", e |-> acc]
    ELSE IF IsComment(line) THEN [raise |-> "", e |-> acc]
    ELSE LET key == FieldKey(line)
             val == FieldVal(line)
         IN  CASE FieldName(key) = "data" ->
                    [raise |-> "", e |-> AccumulateData(acc, val)]
               [] FieldName(key) \in {"event", "id"} ->
                    [raise |-> "", e |-> DictSet(acc, FieldName(key), val)]
               [] FieldName(key) = "retry" ->
                    IF ParseInt(val).ok
                    THEN [raise |-> "", e |-> DictSet(acc, "retry", ParseInt(val).v)]
                    ELSE [raise |-> "ValueError", e |-> acc]
               [] OTHER -> [raise |-> "", e |-> acc]

\* What the loop does to the accumulator once it has yielded it: e = {}
AfterYield(acc) == EmptyDict

----------------------------------------------------------------------------
(* The JSON texts of the model and what json.loads makes of them *)

Frag(id, name, arguments) ==
    [id |-> id, function |-> [name |-> name, arguments |-> arguments]]

Usage35 == [prompt_tokens |-> 3, completion_tokens |-> 5]

\* token -> the decoded document
JsonText ==
    [ \* a fragment with a name only, beside stray text
      J_g |-> [choices |-> <<[delta |-> [content |-> <<"x">>,
                                        tool_calls |-> <<Frag(1, <<"g">>, <<>>)>>]]>>],
      \* a fragment with a name and arguments
      J_wa |-> [choices |-> <<[delta |-> [tool_calls |-> <<Frag(1, <<"w">>, <<"a">>)>>]]>>],
      \* a fragment with arguments only, beside stray text
      J_b |-> [choices |-> <<[delta |-> [content |-> <<"x">>,
                                        tool_calls |-> <<Frag(1, <<>>, <<"b">>)>>]]>>],
      \* a fragment of another tool call
      J_2 |-> [choices |-> <<[delta |-> [tool_calls |-> <<Frag(2, <<"g">>, <<"a">>)>>]]>>],
      \* plain text
      J_text |-> [choices |-> <<[delta |-> [role |-> "assistant", content |-> <<"x">>]]>>],
      \* the end of a tool-call turn
      J_calls |-> [choices |-> <<[delta |-> EmptyDict,
                                  finish_reason |-> PyStr(<<"tool_calls">>)]>>,
                   usage |-> Usage35],
      \* the end of a text turn
      J_stop |-> [choices |-> <<[delta |-> [content |-> <<"x">>],
                                 finish_reason |-> PyStr(<<"stop">>)]>>,
                  usage |-> Usage35],
      \* "finish_reason": ""
      J_empty |-> [choices |-> <<[delta |-> [content |-> <<"x">>],
                                  finish_reason |-> PyStr(<<>>)]>>],
      \* "finish_reason": null
      J_null |-> [choices |-> <<[delta |-> [content |-> <<"x">>],
                                 finish_reason |-> PyNone]>>],
      \* no "choices" key
      J_usage |-> [usage |-> Usage35],
      \* "choices": []
      J_none |-> [choices |-> <<>>] ]

\* json.loads(s): whitespace around the document is ignored; anything that is
\* not exactly one document raises JSONDecodeError
JsonLoads(s) ==
    LET t == Strip(s) IN
    IF Len(t) = 1 /\ t[1] \in DOMAIN JsonText
    THEN [ok |-> TRUE, doc |-> JsonText[t[1]]]
    ELSE [ok |-> FALSE, doc |-> EmptyDict]

----------------------------------------------------------------------------
(* _extract_response_tool_calls and the tool-call merge of                 *)
(* _handle_stream_chat_response                                            *)

ExtractResponseToolCalls(response_tool_calls) ==
    IF Len(response_tool_calls) > 0
    THEN [i \in 1..Len(response_tool_calls) |->
            LET response_function ==
                    Get(response_tool_calls[i], "function", EmptyDict)
            IN  [id |-> Get(response_tool_calls[i], "id", 0),
                 type |-> "function",
                 function |-> [name |-> Get(response_function, "name", <<>>),
                               arguments |-> Get(response_function, "arguments", <<>>)]]]
    ELSE <<>>

\* if tool_call is None / elif the ids differ / else concatenate
OpenOrAppend(tc, tcs, new_tool_call) ==
    IF tc = PyNone
    THEN [tool_call |-> new_tool_call, tool_calls |-> tcs]
    ELSE IF tc.id # new_tool_call.id
    THEN [tool_call |-> new_tool_call, tool_calls |-> Append(tcs, tc)]
    ELSE [tool_call |->
            [tc EXCEPT !.function.name = @ \o new_tool_call.function.name,
                       !.function.arguments = @ \o new_tool_call.function.arguments],
          tool_calls |-> tcs]

\* MoveIfComplete that leaves a complete tool call open
MoveIfCompleteNever(tc, tcs) == [tool_call |-> tc, tool_calls |-> tcs]

\* a tool call with a name and arguments moves to the completed list
MoveIfComplete(tc, tcs) ==
    IF tc # PyNone /\ Len(tc.function.name) > 0 /\ Len(tc.function.arguments) > 0
    THEN [tool_call |-> PyNone, tool_calls |-> Append(tcs, tc)]
    ELSE [tool_call |-> tc, tool_calls |-> tcs]

\* the block under "if response_tool_calls is not None"
MergeToolCalls(tc, tcs, delta) ==
    IF "tool_calls" \notin DOMAIN delta
    THEN [tool_call |-> tc, tool_calls |-> tcs]
    ELSE LET new_tool_calls == ExtractResponseToolCalls(delta["tool_calls"])
             m == IF Len(new_tool_calls) > 0
                  THEN OpenOrAppend(tc, tcs, new_tool_calls[1])
                  ELSE [tool_call |-> tc, tool_calls |-> tcs]
         IN  MoveIfComplete(m.tool_call, m.tool_calls)

\* assistant_prompt_message.content
ChunkContent(message_content, tcs) ==
    IF Len(tcs) > 0 THEN <<>> ELSE message_content

\* ChunkToolCalls with the list attached at any end of a turn
ChunkToolCallsAnyFinish(finish_reason, tcs) ==
    IF Len(finish_reason) > 0 THEN tcs ELSE <<>>

\* assistant_prompt_message.tool_calls
ChunkToolCalls(finish_reason, tcs) ==
    IF finish_reason = <<"tool_calls">> THEN tcs ELSE <<>>

\* AfterChunk without the two resets
AfterChunkKeep(finish_reason, tc, tcs) == [tool_call |-> tc, tool_calls |-> tcs]

\* the open tool call and the completed list after the chunk is built
AfterChunk(finish_reason, tc, tcs) ==
    IF finish_reason = <<"tool_calls">> \/ Len(finish_reason) > 0
    THEN [tool_call |-> PyNone, tool_calls |-> <<>>]
    ELSE [tool_call |-> tc, tool_calls |-> tcs]

\* self._calc_response_usage(model, credentials, prompt_tokens, completion_tokens):
\* the token counts it is given stand for its result
CalcResponseUsage(prompt_tokens, completion_tokens) ==
    [prompt_tokens |-> prompt_tokens, completion_tokens |-> completion_tokens]

\* ChunkUsage computed for every chunk
ChunkUsageAlways(finish_reason, data) ==
    CalcResponseUsage(Get(Get(data, "usage", EmptyDict), "prompt_tokens", 0),
                      Get(Get(data, "usage", EmptyDict), "completion_tokens", 0))

\* the usage of the chunk: computed on a chunk with a finish_reason, else the
\* default None of LLMResultChunkDelta
ChunkUsage(finish_reason, data) ==
    IF Len(finish_reason) > 0
    THEN CalcResponseUsage(Get(Get(data, "usage", EmptyDict), "prompt_tokens", 0),
                           Get(Get(data, "usage", EmptyDict), "completion_tokens", 0))
    ELSE PyNone

\* the finish_reason of the chunk, None by default
ChunkFinishReason(finish_reason) ==
    IF Len(finish_reason) > 0 THEN PyStr(finish_reason) ELSE PyNone

\* EventIndex counting the chunks yielded instead of the events received
EventIndexOfChunk(n_events, n_chunks) == n_chunks

\* enumerate(resp): the index of the event being handled
EventIndex(n_events, n_chunks) == n_events

\* OnMissingData with the event skipped
OnMissingDataSkip == "skip"

\* what the loop does with an event that has no "data" key: event["data"]
\* raises KeyError
OnMissingData == "raise"

\* OnJsonError with the bad event skipped
OnJsonErrorSkip == "skip"

\* what the loop does with data that json.loads rejects: the error propagates
OnJsonError == "raise"

\* One iteration of "for index, event in enumerate(resp)": the event is
\* skipped, raises, or yields one chunk and the new tool-call state.
HandleEvent(event, index, tc, tcs) ==
    LET stay == [tool_call |-> tc, tool_calls |-> tcs, chunk |-> EmptyDict]
        Raise(x) == [kind |-> "raise", err |-> x] @@ stay
        Skip == [kind |-> "skip", err |-> ""] @@ stay
    IN
    IF "data" \notin DOMAIN event
    THEN (IF OnMissingData = "raise" THEN Raise("KeyError") ELSE Skip)
    ELSE IF EndsWith(event["data"], "[DONE]") THEN Skip
    ELSE IF ~JsonLoads(event["data"]).ok
    THEN (IF OnJsonError = "raise" THEN Raise("JSONDecodeError") ELSE Skip)
    ELSE LET data == JsonLoads(event["data"]).doc
             choices == Get(data, "choices", <<>>)
         IN
         IF Len(choices) = 0 THEN Skip
         ELSE LET choice == choices[1]
                  delta == Get(choice, "delta", EmptyDict)
                  message_content == Get(delta, "content", <<>>)
                  finish == Get(choice, "finish_reason", PyStr(<<>>))
                  m == MergeToolCalls(tc, tcs, delta)
              IN
              \* len(None)
              IF ~IsStr(finish) THEN Raise("TypeError")
              ELSE LET finish_reason == finish.str
                       after == AfterChunk(finish_reason, m.tool_call, m.tool_calls)
                   IN  [kind |-> "chunk", err |-> "",
                        tool_call |-> after.tool_call,
                        tool_calls |-> after.tool_calls,
                        chunk |-> [index |-> index,
                                   content |-> ChunkContent(message_content, m.tool_calls),
                                   tool_calls |-> ChunkToolCalls(finish_reason, m.tool_calls),
                                   usage |-> ChunkUsage(finish_reason, data),
                                   finish_reason |-> ChunkFinishReason(finish_reason)]]

----------------------------------------------------------------------------
(* The response bodies of the model *)

DataLine(rest) == KeyData \o <<":">> \o rest

\* "data: <payload>": the framing of the chat endpoint, one per event
DataLines ==
    { DataLine(<<" ", t>>) : t \in DOMAIN JsonText \cup {"[DONE]", "{oops"} }

\* Under Spec the server frames well: a data line, then a blank line.  A blank
\* line may also come first (an event without fields).
AggLines(acc) == IF acc = EmptyDict THEN DataLines \cup {<<>>} ELSE {<<>>}

\* Under SpecSse any of these lines may follow any other.
SseLines ==
    { <<>>,                                        \* blank
      DataLine(<<" ", "J_text">>),                 \* data: J_text
      DataLine(<<"J_stop">>),                      \* data:J_stop
      DataLine(<<" ", "a", ":", "b">>),            \* data: a:b
      <<":", "c">>,                                \* :c
      KeyEvent \o <<":", " ", "m">>,               \* event: m
      KeyEvent \o <<":", "n">>,                    \* event:n
      KeyId \o <<":", "7">>,                       \* id:7
      KeyId \o <<"x">>,                            \* idx
      KeyRetry \o <<":", " ", "3", "0">>,          \* retry: 30
      KeyRetry \o <<":", "7">>,                    \* retry:7
      KeyRetry \o <<":", "x">>,                    \* retry:x
      <<"f", ":", "1">>,                           \* f:1
      <<"d", BadByte>> }                           \* d\xff

----------------------------------------------------------------------------
(* The invocation *)

StatusCodes == {200, 500}

\* the bodies of a non-streaming response, decoded
ChatBodies ==
    { [choices |-> <<[message |-> [content |-> <<"x">>]]>>, usage |-> Usage35],
      [choices |-> <<[message |-> [content |-> <<"x", "x">>]],
                     [message |-> [content |-> <<>>]]>>,
       usage |-> [prompt_tokens |-> 5, completion_tokens |-> 3]] }

\* an operation that has not been called
Idle == [pc |-> "idle"]

\* the variables of the other operations
rest == <<two, calls, mapping, tool, probe>>

TwoIdle == frames = Idle /\ runs = Idle

SignIdle == calls = <<>>

MappingIdle == prompt_messages = <<>> /\ dict_list = PyNone

ToolIdle == tool = Idle

ProbeIdle == probe = Idle

\* no other operation is called
RestIdle == TwoIdle /\ SignIdle /\ MappingIdle /\ ToolIdle /\ ProbeIdle

\* the invocation before _invoke is called
InvocationInit ==
    /\ pc = "idle"
    /\ err = ""
    /\ posts = 0
    /\ status = 0
    /\ conn = "none"
    /\ body = PyNone
    /\ result = PyNone
    /\ lines = <<>>
    /\ e = EmptyDict
    /\ events = <<>>
    /\ tool_call = PyNone
    /\ tool_calls = <<>>
    /\ chunks = <<>>
    /\ stream \in BOOLEAN
    /\ has_api_key \in BOOLEAN

\* _invoke is not called
InvocationIdle == InvocationInit /\ stream /\ has_api_key

Init == InvocationInit /\ RestIdle

\* BadStatus with the check left out
BadStatusNever(status_code) == FALSE

\* response.status_code != 200
BadStatus(status_code) == status_code # 200

\* PostStream set: requests.post(..., stream=True)
PostStreamTrue == TRUE

\* the stream keyword of requests.post, which the call leaves at its default
PostStream == FALSE

\* the connection when requests.post returns: without stream=True requests
\* has read the whole body and released the connection by then
ConnAfterPost == IF PostStream THEN "open" ELSE "closed"

\* response.json, the bound method, which _invoke passes without calling it
ResponseJson == [bound_method |-> "json"]

\* getattr(obj, name) succeeds
HasAttr(obj, name) == name \in DOMAIN obj

\* _handle_chat_response(credentials, model, prompt_messages, response)
HandleChatResponse(response) ==
    IF ~HasAttr(response, "usage") \/ ~HasAttr(response, "choices")
    THEN [raise |-> "AttributeError", result |-> PyNone]
    ELSE [raise |-> "",
          result |-> [message |-> [content |-> response.choices[1].message.content],
                      usage |-> CalcResponseUsage(response.usage.prompt_tokens,
                                                  response.usage.completion_tokens)]]

\* _invoke up to its return: the headers, the POST, the status check and the
\* choice of the handler.  The generators it returns run nothing until pulled.
Invoke ==
    /\ pc = "idle"
    /\ UNCHANGED <<args, sse, agg, rest>>
    /\ IF ~has_api_key
       THEN \* credentials["api_key"]
            /\ pc' = "raised"
            /\ err' = "KeyError"
            /\ UNCHANGED <<http, result>>
       ELSE \E status_code \in StatusCodes :
            /\ posts' = posts + 1
            /\ status' = status_code
            /\ conn' = ConnAfterPost
            /\ IF BadStatus(status_code)
               THEN pc' = "raised" /\ err' = "Exception"
                    /\ UNCHANGED <<body, result>>
               ELSE IF stream
               THEN pc' = "streaming" /\ err' = ""
                    /\ UNCHANGED <<body, result>>
               ELSE \E doc \in ChatBodies :
                    LET r == HandleChatResponse(ResponseJson) IN
                    /\ body' = doc
                    /\ result' = r.result
                    /\ err' = r.raise
                    /\ pc' = IF r.raise # "" THEN "raised" ELSE "returned"

\* "if not line: yield e": the event goes to _handle_stream_chat_response,
\* which handles it before the next line is read.
Deliver ==
    LET r == HandleEvent(e, EventIndex(Len(events), Len(chunks)), tool_call, tool_calls) IN
    /\ events' = Append(events, e)
    /\ e' = AfterYield(e)
    /\ tool_call' = r.tool_call
    /\ tool_calls' = r.tool_calls
    /\ chunks' = IF r.kind = "chunk" THEN Append(chunks, r.chunk) ELSE chunks
    /\ pc' = IF r.kind = "raise" THEN "raised" ELSE pc
    /\ err' = r.err

\* a line that is not blank
Accumulate(line) ==
    LET r == SseLine(e, line) IN
    /\ e' = r.e
    /\ pc' = IF r.raise # "" THEN "raised" ELSE pc
    /\ err' = r.raise
    /\ UNCHANGED <<events, agg>>

\* One iteration of "for line in resp.iter_lines()"
ReadLine(line) ==
    /\ pc = "streaming"
    /\ lines' = Append(lines, line)
    /\ UNCHANGED <<args, http, result, rest>>
    /\ IF line = <<>> THEN Deliver ELSE Accumulate(line)

\* EventsAtEnd flushing a non-empty accumulator
EventsAtEndFlush(evs, acc) == IF acc # EmptyDict THEN Append(evs, acc) ELSE evs

\* the events yielded once resp.iter_lines() is exhausted: no more
EventsAtEnd(evs, acc) == evs

\* resp.iter_lines() is exhausted: both loops end
EndOfStream ==
    /\ pc = "streaming"
    /\ pc' = "exhausted"
    /\ events' = EventsAtEnd(events, e)
    /\ UNCHANGED <<err, args, http, result, lines, e, agg, rest>>

\* the caller stops pulling and drops or closes the generator: GeneratorExit
\* is raised at the yield of each generator, neither of which has a try, a
\* with or a close() around it
Abandon ==
    /\ pc = "streaming"
    /\ pc' = "abandoned"
    /\ UNCHANGED <<err, args, http, result, sse, agg, rest>>

ReadAggLine == Len(lines) < MaxLines /\ \E line \in AggLines(e) : ReadLine(line)

ReadSseLine == Len(lines) < MaxSseLines /\ \E line \in SseLines : ReadLine(line)

Next == Invoke \/ ReadAggLine \/ EndOfStream

Spec == Init /\ [][Next]_vars

NextSse == Invoke \/ ReadSseLine \/ EndOfStream \/ Abandon

SpecSse == Init /\ [][NextSse]_vars

----------------------------------------------------------------------------
(* Two streaming invocations on one HunyuanLargeLanguageModel object.      *)
(* _invoke builds each pair of generators from its own response; the       *)
(* object holds self.url only.  tool_calls, tool_call (llm.py:194-195) and *)
(* e (llm.py:375) are locals of the generator frames.                      *)

Invocations == {1, 2}

\* FrameOf with the locals kept on the object, one copy for all invocations
FrameOfShared(i) == 1

\* the frame that holds the locals of invocation i: its own
FrameOf(i) == i

\* the locals when the generators start: e = {}, enumerate at 0,
\* tool_call = None, tool_calls = []
NewFrame ==
    [e |-> EmptyDict, idx |-> 0, yielded |-> 0,
     tool_call |-> PyNone, tool_calls |-> <<>>]

NewRun(state) == [pc |-> state, err |-> "", lines |-> <<>>, chunks |-> <<>>]

\* the bodies of SpecTwo: framed events of tool-call fragments and the end of
\* the turn
TwoLines(acc) ==
    IF acc = EmptyDict
    THEN { DataLine(<<" ", t>>) : t \in {"J_g", "J_b", "J_calls"} }
    ELSE {<<>>}

\* One iteration of "for line in resp.iter_lines()" on the locals loc: the new
\* locals, the chunks yielded and the exception raised
StepLine(loc, line) ==
    IF line = <<>>
    THEN LET r == HandleEvent(loc.e, EventIndex(loc.idx, loc.yielded),
                              loc.tool_call, loc.tool_calls) IN
         [locals |-> [e |-> AfterYield(loc.e),
                      idx |-> loc.idx + 1,
                      yielded |-> loc.yielded + (IF r.kind = "chunk" THEN 1 ELSE 0),
                      tool_call |-> r.tool_call,
                      tool_calls |-> r.tool_calls],
          out |-> IF r.kind = "chunk" THEN <<r.chunk>> ELSE <<>>,
          raise |-> r.err]
    ELSE LET r == SseLine(loc.e, line) IN
         [locals |-> [loc EXCEPT !.e = r.e], out |-> <<>>, raise |-> r.raise]

InitTwo ==
    /\ InvocationIdle /\ SignIdle /\ MappingIdle /\ ToolIdle /\ ProbeIdle
    /\ frames = [k \in Invocations |-> NewFrame]
    /\ runs = [i \in Invocations |-> NewRun("idle")]

\* invocation i gets its generators
Start(i) ==
    /\ runs[i].pc = "idle"
    /\ runs' = [runs EXCEPT ![i] = NewRun("streaming")]
    /\ frames' = [frames EXCEPT ![FrameOf(i)] = NewFrame]
    /\ UNCHANGED <<invocation, calls, mapping, tool, probe>>

\* the caller of invocation i pulls; the generators read one more line
Pull(i) ==
    /\ runs[i].pc = "streaming"
    /\ Len(runs[i].lines) < MaxTwoLines
    /\ \E line \in TwoLines(frames[FrameOf(i)].e) :
         LET r == StepLine(frames[FrameOf(i)], line) IN
         /\ frames' = [frames EXCEPT ![FrameOf(i)] = r.locals]
         /\ runs' = [runs EXCEPT ![i] =
                        [pc |-> IF r.raise # "" THEN "raised" ELSE "streaming",
                         err |-> r.raise,
                         lines |-> Append(runs[i].lines, line),
                         chunks |-> runs[i].chunks \o r.out]]
    /\ UNCHANGED <<invocation, calls, mapping, tool, probe>>

\* the body of invocation i is exhausted
Exhaust(i) ==
    /\ runs[i].pc = "streaming"
    /\ runs' = [runs EXCEPT ![i].pc = "exhausted"]
    /\ UNCHANGED <<frames, invocation, calls, mapping, tool, probe>>

StartAny == \E i \in Invocations : Start(i)

PullAny == \E i \in Invocations : Pull(i)

ExhaustAny == \E i \in Invocations : Exhaust(i)

NextTwo == StartAny \/ PullAny \/ ExhaustAny

SpecTwo == InitTwo /\ [][NextTwo]_vars

----------------------------------------------------------------------------
(* Reading the history: events, their documents and their source lines *)

Range(f) == { f[i] : i \in DOMAIN f }

\* the event's data decodes to a document
Decoded(event) ==
    /\ "data" \in DOMAIN event
    /\ ~EndsWith(event["data"], "[DONE]")
    /\ JsonLoads(event["data"]).ok

\* the event's data is neither the sentinel nor a JSON document
BadJson(event) ==
    /\ "data" \in DOMAIN event
    /\ ~EndsWith(event["data"], "[DONE]")
    /\ ~JsonLoads(event["data"]).ok

\* the first choice of the event's document, {} when it has none
ChoiceOf(event) ==
    IF Decoded(event) /\ Len(Get(JsonLoads(event["data"]).doc, "choices", <<>>)) > 0
    THEN JsonLoads(event["data"]).doc["choices"][1]
    ELSE EmptyDict

HasChoice(event) ==
    Decoded(event) /\ Len(Get(JsonLoads(event["data"]).doc, "choices", <<>>)) > 0

\* the tool-call fragments the event carries
FragsOf(event) == Get(Get(ChoiceOf(event), "delta", EmptyDict), "tool_calls", <<>>)

\* the event's finish_reason is absent or the empty string
NoFinish(event) ==
    Get(ChoiceOf(event), "finish_reason", PyStr(<<>>)) = PyStr(<<>>)

\* the event's finish_reason is the string w
FinishIs(event, w) ==
    Get(ChoiceOf(event), "finish_reason", PyStr(<<>>)) = PyStr(<<w>>)

\* the chunk's finish_reason is the string w
ChunkFinishIs(c, w) == c.finish_reason = PyStr(<<w>>)

\* the event has a first choice and a finish_reason that is a string
YieldsChunk(event) ==
    HasChoice(event) /\ IsStr(Get(ChoiceOf(event), "finish_reason", PyStr(<<>>)))

NumBlank(ls) == Cardinality({ p \in 1..Len(ls) : ls[p] = <<>> })

\* the position in lines of the blank line that ended block k, 0 for k = 0
BlankPos(k) ==
    IF k = 0 THEN 0
    ELSE CHOOSE p \in 1..Len(lines) :
            lines[p] = <<>> /\ NumBlank(SubSeq(lines, 1, p)) = k

\* the lines of block k: those between blank line k-1 and blank line k
Block(k) == SubSeq(lines, BlankPos(k - 1) + 1, BlankPos(k) - 1)

RECURSIVE JoinNL(_)
JoinNL(vals) ==
    IF Len(vals) = 1 THEN vals[1]
    ELSE JoinNL(SubSeq(vals, 1, Len(vals) - 1)) \o <<"\n">> \o vals[Len(vals)]

\* the concatenation of the fragment names (arguments) of events 1..k
RECURSIVE NamesUpTo(_)
NamesUpTo(k) ==
    IF k = 0 THEN <<>>
    ELSE NamesUpTo(k - 1) \o FragsOf(events[k])[1].function.name

RECURSIVE ArgumentsUpTo(_)
ArgumentsUpTo(k) ==
    IF k = 0 THEN <<>>
    ELSE ArgumentsUpTo(k - 1) \o FragsOf(events[k])[1].function.arguments

\* the chunk of event j (1-based) when the loop handles events i..j starting
\* from the tool-call state (tc, tcs)
RECURSIVE Replay(_, _, _, _)
Replay(i, j, tc, tcs) ==
    LET r == HandleEvent(events[i], i - 1, tc, tcs) IN
    IF i = j THEN r.chunk ELSE Replay(i + 1, j, r.tool_call, r.tool_calls)

----------------------------------------------------------------------------
(* Claims about _handle_stream_chat_response *)

\* the events 1..k each carry exactly one fragment, all with the same id, and
\* no finish_reason
OneCallFragments(k) ==
    /\ k >= 1
    /\ \A j \in 1..k :
        /\ Len(FragsOf(events[j])) = 1
        /\ NoFinish(events[j])
        /\ FragsOf(events[j])[1].id = FragsOf(events[1])[1].id

\* C1: when every event before a finish_reason "tool_calls" event carries one
\* fragment of the same tool call, the chunk of that final event carries
\* exactly one tool call, with that id, whose name and arguments are the
\* in-order concatenations of the fragments' names and arguments.
C1_Reassembly ==
    \A c \in Range(chunks) :
        (/\ OneCallFragments(c.index)
         /\ FinishIs(events[c.index + 1], "tool_calls")
         /\ FragsOf(events[c.index + 1]) = <<>>)
        => c.tool_calls =
            << [id |-> FragsOf(events[1])[1].id,
                type |-> "function",
                function |-> [name |-> NamesUpTo(c.index),
                              arguments |-> ArgumentsUpTo(c.index)]] >>

\* the 1-based number of the first event of the turn that event k belongs to:
\* the one after the last earlier event that ended a turn
TurnStart(k) ==
    LET ends == { j \in 1..(k - 1) :
                    \E c \in Range(chunks) : c.index = j - 1 /\ c.finish_reason # PyNone }
    IN  IF ends = {} THEN 1 ELSE (CHOOSE j \in ends : \A i \in ends : i <= j) + 1

\* a tool call has been opened in the turn of event k, by event k at the latest
ToolCallInTurn(k) == \E j \in TurnStart(k)..k : Len(FragsOf(events[j])) > 0

\* C2: every chunk emitted while a tool call is pending or completed in the
\* current turn has empty message content.
C2_ContentSuppressed ==
    \A c \in Range(chunks) : ToolCallInTurn(c.index + 1) => c.content = <<>>

\* C3: right after a chunk with finish_reason "tool_calls" the open tool call
\* is None and the completed list is empty, and every later chunk is the chunk
\* a fresh loop would yield for the events after that chunk alone.
C3_TurnIsolation ==
    \A c \in Range(chunks) :
        ChunkFinishIs(c, "tool_calls") =>
            /\ c.index = Len(events) - 1 => (tool_call = PyNone /\ tool_calls = <<>>)
            /\ \A d \in Range(chunks) :
                d.index > c.index => d = Replay(c.index + 2, d.index + 1, PyNone, <<>>)

\* a tool call was completed, its turn was ended by "tool_calls", and a later
\* event yielded a chunk
C3_Witness ==
    \E c, d \in Range(chunks) :
        /\ ChunkFinishIs(c, "tool_calls")
        /\ Len(c.tool_calls) > 0
        /\ d.index > c.index
        /\ Len(FragsOf(events[d.index + 1])) > 0

\* C4: a chunk carries usage exactly when its finish_reason is a non-empty
\* string, and the chunk of an event with an empty or absent finish_reason
\* carries neither usage nor finish_reason.
C4_UsagePlacement ==
    \A c \in Range(chunks) :
        /\ c.usage # PyNone <=> (c.finish_reason # PyNone /\ Len(c.finish_reason.str) > 0)
        /\ NoFinish(events[c.index + 1]) => (c.usage = PyNone /\ c.finish_reason = PyNone)
        /\ ~NoFinish(events[c.index + 1]) =>
                c.finish_reason = ChoiceOf(events[c.index + 1])["finish_reason"]

\* chunks of both kinds have been emitted, one of them for "finish_reason": ""
C4_Witness ==
    /\ \E c \in Range(chunks) : c.usage # PyNone
    /\ \E c \in Range(chunks) :
        /\ c.usage = PyNone
        /\ "finish_reason" \in DOMAIN ChoiceOf(events[c.index + 1])

\* C5: chunks come out in the order of their source events; the index of a
\* chunk is the 0-based position of its source event among all events the
\* parser delivered, skipped ones included, so indices strictly increase.
C5_ChunkOrder ==
    /\ \A i \in 1..Len(chunks) :
        /\ chunks[i].index \in 0..(Len(events) - 1)
        /\ YieldsChunk(events[chunks[i].index + 1])
        /\ i > 1 => chunks[i - 1].index < chunks[i].index
    /\ Len(chunks) = Cardinality({ k \in 1..Len(events) : YieldsChunk(events[k]) })

\* two chunks with a skipped event between them
C5_Witness ==
    /\ Len(chunks) >= 2
    /\ chunks[2].index > chunks[1].index + 1

----------------------------------------------------------------------------
(* Claims about _process_response_sse *)

HasColon(line) == \E i \in 1..Len(line) : line[i] = ":"

\* the text after the first colon, less one leading space
ValueLessSpace(line) ==
    LET v == SubSeq(line, Find(line, ":") + 2, Len(line)) IN
    IF Len(v) > 0 /\ v[1] = " " THEN Tail(v) ELSE v

\* C6: for a line that is no comment and contains a colon, the key is the text
\* before the first colon and the stored value is the text after it with one
\* leading space removed; "data: X" gives an event whose data is X.
C6_FieldValue ==
    \A k \in 1..Len(events) :
        LET line == Block(k)[1]
            name == FieldName(SubSeq(line, 1, Find(line, ":")))
        IN  (/\ Len(Block(k)) = 1
             /\ ~IsComment(line)
             /\ HasColon(line)
             /\ name \in {"data", "event", "id"})
            => /\ name \in DOMAIN events[k]
               /\ events[k][name] = ValueLessSpace(line)

\* the lines of a block that set field name, in arrival order
FieldLines(block, name) ==
    LET Sets(line) == ~IsComment(line) /\ FieldName(FieldKey(line)) = name
    IN  SelectSeq(block, Sets)

\* the values of a sequence of field lines
Values(field_lines) == [i \in 1..Len(field_lines) |-> FieldVal(field_lines[i])]

Last(seq) == seq[Len(seq)]

\* the event a block stands for: data joined by newlines, event and id from
\* their last lines, retry parsed from its last line
EventOfBlock(block) ==
    LET present == { name \in {"data", "event", "id", "retry"} :
                        Len(FieldLines(block, name)) > 0 }
    IN  [name \in present |->
            CASE name = "data" -> JoinNL(Values(FieldLines(block, "data")))
              [] name = "retry" -> ParseInt(Last(Values(FieldLines(block, "retry")))).v
              [] OTHER -> Last(Values(FieldLines(block, name)))]

\* C7: the event emitted for a block holds the block's data values joined by
\* newlines in arrival order, the values of its last event and id lines, the
\* integer of its last retry line, and nothing of any other block.
C7_Accumulation ==
    \A k \in 1..Len(events) : events[k] = EventOfBlock(Block(k))

\* a block of two data lines has been emitted as one event
C7_Witness ==
    /\ Len(events) = 1
    /\ Len(FieldLines(Block(1), "data")) = 2
    /\ \E i \in 1..Len(events[1]["data"]) : events[1]["data"][i] = "\n"

\* C8: the event sequence ends with the line source; one event is emitted per
\* blank line read and none for the fields accumulated after the last blank
\* line, which are lost with the end of the stream.
C8_EndOfStream ==
    /\ Len(events) = NumBlank(lines)
    /\ \A c \in Range(chunks) : c.index < NumBlank(lines)
    /\ pc = "exhausted" => err = ""

\* the stream ended on a data line without a blank line after it
C8_Witness ==
    /\ pc = "exhausted"
    /\ "data" \in DOMAIN e
    /\ Len(lines) > 0
    /\ Last(lines) # <<>>
    /\ Len(events) = 1

----------------------------------------------------------------------------
(* Claims about failures *)

\* C9: data that is neither the sentinel nor JSON ends the stream with an
\* error at its event: the chunks of the earlier events stand, the event and
\* the later ones yield no chunk, and nothing is read after it.
C9_FailFastDecode ==
    \A k \in 1..Len(events) :
        BadJson(events[k]) =>
            /\ pc = "raised"
            /\ err = "JSONDecodeError"
            /\ k = Len(events)
            /\ Len(lines) = BlankPos(k)
            /\ \A c \in Range(chunks) : c.index < k - 1
            /\ Len(chunks) = Cardinality({ j \in 1..(k - 1) : YieldsChunk(events[j]) })

\* a chunk was emitted, then an event with bad data ended the stream
C9_Witness ==
    /\ Len(chunks) >= 1
    /\ Len(events) >= 2
    /\ BadJson(Last(events))
    /\ pc = "raised"

\* C10: a response whose status is not 200 fails the invocation before any
\* line of the body is read; one POST has been issued and no chunk produced.
C10_FailFastStatus ==
    /\ posts <= 1
    /\ (posts = 1 /\ status # 200) =>
        /\ pc = "raised"
        /\ err = "Exception"
        /\ lines = <<>>
        /\ events = <<>>
        /\ chunks = <<>>

\* a streaming invocation got status 500
C10_Witness == stream /\ posts = 1 /\ status = 500 /\ pc = "raised"

----------------------------------------------------------------------------
(* The non-streaming path and the connection *)

\* C11: a non-streaming invocation whose POST came back with status 200 and
\* one chat-completion object has returned one result, with the content of
\* the first choice and the usage of the body's token counts, and no error.
C11_NonStreaming ==
    (pc # "idle" /\ ~stream /\ has_api_key /\ status = 200)
        => /\ pc = "returned"
           /\ err = ""
           /\ result = [message |-> [content |-> body.choices[1].message.content],
                        usage |-> CalcResponseUsage(body.usage.prompt_tokens,
                                                    body.usage.completion_tokens)]

\* C12: once the caller has abandoned the chunk sequence, the connection of
\* the POST is closed.
C12_Cancellation == pc = "abandoned" => conn = "closed"

\* abandoned after an event was pulled and with a line of the next one read
C12_Witness ==
    /\ pc = "abandoned"
    /\ Len(events) >= 1
    /\ e # EmptyDict

----------------------------------------------------------------------------
(* Isolation of invocations *)

\* the chunks and the exception of one invocation that reads ls[k..] alone,
\* starting from the locals loc
RECURSIVE RunAlone(_, _, _)
RunAlone(ls, k, loc) ==
    IF k > Len(ls) THEN [chunks |-> <<>>, err |-> ""]
    ELSE LET r == StepLine(loc, ls[k]) IN
         IF r.raise # "" THEN [chunks |-> r.out, err |-> r.raise]
         ELSE LET t == RunAlone(ls, k + 1, r.locals) IN
              [chunks |-> r.out \o t.chunks, err |-> t.err]

\* C13: however the pulls of two invocations interleave, each has yielded the
\* chunks (and raised the exception) it yields when it reads its lines alone.
C13_Isolation ==
    \A i \in Invocations :
        runs[i].pc # "idle" =>
            /\ runs[i].chunks = RunAlone(runs[i].lines, 1, NewFrame).chunks
            /\ runs[i].err = RunAlone(runs[i].lines, 1, NewFrame).err

\* both invocations are in the middle of a tool call, each with its own, and
\* one of them has yielded a chunk
C13_Witness ==
    /\ frames[1].tool_call # PyNone
    /\ frames[2].tool_call # PyNone
    /\ frames[1].tool_call # frames[2].tool_call
    /\ Len(runs[1].chunks) >= 2
    /\ Len(runs[2].chunks) >= 1

----------------------------------------------------------------------------
(* SignatureBuilder.get_authorization_header                               *)
(* (api/core/tools/provider/builtin/tencent_cloud/_tencent_cloud_base.py)  *)
(*                                                                         *)
(* A digest is one token that spells out what was hashed, so two digests   *)
(* are equal exactly when the same function was applied to the same bytes. *)

\* calls of get_authorization_header recorded under SpecSign
MaxCalls == 2

\* hashlib.sha256(s.encode("utf-8")).hexdigest()
Sha256Hex(s) == <<"sha256(" \o ToString(s) \o ")">>

\* self._sign(key, msg): hmac.new(key, msg.encode("utf-8"), hashlib.sha256).digest()
Sign(key, msg) == <<"hmac(" \o ToString(key) \o "," \o ToString(msg) \o ")">>

\* hmac.new(key, msg, hashlib.sha256).hexdigest()
HmacHex(key, msg) == <<"hex(" \o ToString(Sign(key, msg)) \o ")">>

\* str.lower() of one character
LowerChar(c) ==
    CASE c = "S" -> "s"
      [] c = "L" -> "l"
      [] c = "D" -> "d"
      [] OTHER -> c

\* action.lower()
Lower(s) == [i \in 1..Len(s) |-> LowerChar(s[i])]

\* datetime.utcfromtimestamp(timestamp).strftime("%Y-%m-%d"), for the first
\* two days of the epoch
DateOf(timestamp) ==
    IF timestamp \div 86400 = 0 THEN <<"1970-01-01">> ELSE <<"1970-01-02">>

\* str(timestamp)
Str(timestamp) == <<ToString(timestamp)>>

NL == <<"\n">>

\* CanonicalHeaders without the host line's value
CanonicalHeadersNoHost(ct, host, action) ==
    <<"content-type:">> \o ct \o NL \o <<"host:">> \o NL
        \o <<"x-tc-action:">> \o Lower(action) \o NL

\* "content-type:%s\nhost:%s\nx-tc-action:%s\n" % (ct, host, action.lower())
CanonicalHeaders(ct, host, action) ==
    <<"content-type:">> \o ct \o NL \o <<"host:">> \o host \o NL
        \o <<"x-tc-action:">> \o Lower(action) \o NL

\* get_authorization_header(timestamp, host, action, payload) of a
\* SignatureBuilder(service, secret_id, secret_key)
GetAuthorizationHeader(service, secret_id, secret_key, timestamp, host, action, payload) ==
    LET algorithm == <<"TC3-HMAC-SHA256">>
        date == DateOf(timestamp)
        http_request_method == <<"POST">>
        canonical_uri == <<"/">>
        canonical_querystring == <<>>
        ct == <<"application/json; charset=utf-8">>
        canonical_headers == CanonicalHeaders(ct, host, action)
        signed_headers == <<"content-type;host;x-tc-action">>
        hashed_request_payload == Sha256Hex(payload)
        canonical_request ==
            http_request_method \o NL \o canonical_uri \o NL
                \o canonical_querystring \o NL \o canonical_headers \o NL
                \o signed_headers \o NL \o hashed_request_payload
        credential_scope == date \o <<"/">> \o service \o <<"/">> \o <<"tc3_request">>
        hashed_canonical_request == Sha256Hex(canonical_request)
        string_to_sign ==
            algorithm \o NL \o Str(timestamp) \o NL \o credential_scope \o NL
                \o hashed_canonical_request
        secret_date == Sign(<<"TC3">> \o secret_key, date)
        secret_service == Sign(secret_date, service)
        secret_signing == Sign(secret_service, <<"tc3_request">>)
        signature == HmacHex(secret_signing, string_to_sign)
    IN algorithm \o <<" ">> \o <<"Credential=">> \o secret_id \o <<"/">>
           \o credential_scope \o <<", ">> \o <<"SignedHeaders=">>
           \o signed_headers \o <<", ">> \o <<"Signature=">> \o signature

\* the inputs SpecSign draws
SignInputs ==
    [service : {<<"cls">>},
     secret_id : {<<"AKID">>},
     secret_key : {<<"k">>, <<"k", "2">>},
     timestamp : {0, 1, 86400},
     host : {<<"cls.tencentcloudapi.com">>, <<"cls.internal">>},
     action : {<<"S", "earch", "L", "og">>, <<"s", "earch", "l", "og">>,
               <<"D", "escribe", "L", "ogs">>},
     payload : {<<"{}">>, <<"{", "q", "}">>}]

InitSign ==
    /\ InvocationIdle /\ TwoIdle /\ MappingIdle /\ ToolIdle /\ ProbeIdle
    /\ calls = <<>>

\* one call of get_authorization_header on a builder made for the call
SignCall ==
    /\ Len(calls) < MaxCalls
    /\ \E in \in SignInputs :
         calls' = Append(calls,
                     [in |-> in,
                      out |-> GetAuthorizationHeader(in.service, in.secret_id,
                                  in.secret_key, in.timestamp, in.host,
                                  in.action, in.payload)])
    /\ UNCHANGED <<invocation, two, mapping, tool, probe>>

NextSign == SignCall

SpecSign == InitSign /\ [][NextSign]_vars

\* the Signature= part of an authorization string
SignatureOf(authorization) == authorization[Len(authorization)]

\* the inputs the claim varies
Varied == {"timestamp", "host", "action", "payload", "secret_key"}

\* a and b differ in exactly one of the varied inputs and in nothing else
DifferInOne(a, b) ==
    /\ Cardinality({f \in Varied : a[f] # b[f]}) = 1
    /\ \A f \in DOMAIN a \ Varied : a[f] = b[f]

\* C14 as stated: equal inputs give equal authorization strings, and two calls
\* that differ in exactly one of timestamp, host, action, payload, secret_key
\* give different signatures.
C14_SigningSensitivity ==
    \A i, j \in 1..Len(calls) :
        /\ calls[i].in = calls[j].in => calls[i].out = calls[j].out
        /\ DifferInOne(calls[i].in, calls[j].in)
               => SignatureOf(calls[i].out) # SignatureOf(calls[j].out)

\* C14, amended: equal inputs give equal authorization strings, and two calls
\* that differ in exactly one of timestamp, host, payload, secret_key, or in
\* the action by more than the case of its letters, give different signatures.
C14_SigningSensitivityUpToCase ==
    \A i, j \in 1..Len(calls) :
        /\ calls[i].in = calls[j].in => calls[i].out = calls[j].out
        /\ (/\ DifferInOne(calls[i].in, calls[j].in)
            /\ Lower(calls[i].in.action) # Lower(calls[j].in.action)
                   \/ calls[i].in.action = calls[j].in.action)
               => SignatureOf(calls[i].out) # SignatureOf(calls[j].out)

\* two calls that differ in the action only, and by more than case
C14_Witness ==
    /\ Len(calls) = 2
    /\ DifferInOne(calls[1].in, calls[2].in)
    /\ Lower(calls[1].in.action) # Lower(calls[2].in.action)

----------------------------------------------------------------------------
(* _convert_prompt_messages_to_dicts                                       *)
(*                                                                         *)
(* A message is a record: kind is its class, role its role.value, content  *)
(* None, a str or a list of parts; an assistant message has tool_calls and *)
(* a tool message tool_call_id.  A wire message is a dict.                 *)

\* messages in prompt_messages under SpecMap
MaxMessages == 1
\* tool calls of one assistant message
MaxToolCalls == 2
\* parts of one user message
MaxParts == 3

\* a Python list, where the code tells it from a str
PyList(l) == [list |-> l]

\* the sequences over S of length 0..n
SeqsUpTo(S, n) == UNION { [1..k -> S] : k \in 0..n }

\* WireArguments forwarding the source arguments as they are
WireArgumentsForward(arguments) == arguments

\* tool_call.function.arguments if (tool_call.function.arguments == "") else "{}"
WireArguments(arguments) == IF arguments = <<>> THEN arguments ELSE <<"{}">>

\* one entry of dict_tool_calls
WireToolCall(tc) ==
    [Id |-> tc.id,
     Type |-> tc.type,
     Function |-> [Name |-> tc.function.name,
                   Arguments |-> WireArguments(tc.function.arguments)]]

\* WirePart with the image branch left out
WirePartTextOnly(message_content) ==
    IF message_content.type = "text"
    THEN <<[Type |-> <<"text">>, Text |-> message_content.data]>>
    ELSE <<>>

\* the entries one part adds to sub_messages: a part that is neither TEXT nor
\* IMAGE adds none
WirePart(message_content) ==
    IF message_content.type = "text"
    THEN <<[Type |-> <<"text">>, Text |-> message_content.data]>>
    ELSE IF message_content.type = "image"
    THEN <<[Type |-> <<"image_url">>, ImageUrl |-> [Url |-> message_content.data]]>>
    ELSE <<>>

\* sub_messages after the loop over message.content[k..]
RECURSIVE SubMessages(_, _)
SubMessages(parts, k) ==
    IF k > Len(parts) THEN <<>>
    ELSE WirePart(parts[k]) \o SubMessages(parts, k + 1)

\* json.dumps({"result": content}, ensure_ascii=False), for a content without
\* characters that JSON escapes
DumpsResult(content) ==
    <<"{\"result\": ">>
        \o (IF IsStr(content) THEN <<"\"">> \o content.str \o <<"\"">> ELSE <<"null">>)
        \o <<"}">>

\* the dict appended for one message
WireMessage(message) ==
    IF message.kind = "assistant"
    THEN IF Len(message.tool_calls) > 0
         THEN [Role |-> message.role,
               Content |-> PyStr(<<" ">>),
               ToolCalls |-> [k \in 1..Len(message.tool_calls) |->
                                 WireToolCall(message.tool_calls[k])]]
         ELSE [Role |-> message.role, Content |-> message.content]
    ELSE IF message.kind = "tool"
    THEN [Role |-> message.role,
          Content |-> PyStr(DumpsResult(message.content)),
          ToolCallId |-> message.tool_call_id]
    ELSE IF message.kind = "user"
    THEN IF IsStr(message.content)
         THEN [Role |-> message.role, Content |-> message.content]
         ELSE [Role |-> message.role,
               Contents |-> SubMessages(message.content.list, 1)]
    ELSE [Role |-> message.role, Content |-> message.content]

\* _convert_prompt_messages_to_dicts(prompt_messages)
ConvertPromptMessagesToDicts(messages) ==
    [i \in 1..Len(messages) |-> WireMessage(messages[i])]

\* the types of the parts of a user message: text and image
PartTypes == {"text", "image"}

\* the parts SpecMap draws
Parts ==
    { p \in [type : PartTypes, data : {<<"a">>, <<"b">>, <<"url1">>}] :
        (p.type = "image") = (p.data = <<"url1">>) }

\* the tool calls SpecMap draws
SourceToolCalls ==
    { [id |-> t[1], type |-> "function", function |-> [name |-> t[2], arguments |-> t[3]]] :
        t \in {<<"c1", <<"f">>, <<>>>>,
               <<"c1", <<"f">>, <<"{\"a\": 1}">>>>,
               <<"c2", <<"g">>, <<"{}">>>>} }

\* the messages SpecMap draws
Messages ==
    { [kind |-> "assistant", role |-> "assistant", content |-> c, tool_calls |-> tcs] :
        c \in {PyNone, PyStr(<<"hi">>)}, tcs \in SeqsUpTo(SourceToolCalls, MaxToolCalls) }
    \cup
    { [kind |-> "user", role |-> "user", content |-> c] :
        c \in {PyStr(<<"hi">>)} \cup { PyList(l) : l \in SeqsUpTo(Parts, MaxParts) } }
    \cup
    { [kind |-> "tool", role |-> "tool", content |-> PyStr(<<"r">>), tool_call_id |-> "c1"],
      [kind |-> "system", role |-> "system", content |-> PyStr(<<"be brief">>)] }

InitMap ==
    /\ InvocationIdle /\ TwoIdle /\ SignIdle /\ ToolIdle /\ ProbeIdle
    /\ prompt_messages \in SeqsUpTo(Messages, MaxMessages)
    /\ dict_list = PyNone

\* the call of _convert_prompt_messages_to_dicts
Convert ==
    /\ dict_list = PyNone
    /\ dict_list' = PyList(ConvertPromptMessagesToDicts(prompt_messages))
    /\ UNCHANGED <<prompt_messages, invocation, two, calls, tool, probe>>

NextMap == Convert

SpecMap == InitMap /\ [][NextMap]_vars

\* the call has returned
Converted == dict_list # PyNone

\* C15: an assistant message with tool calls becomes a wire message whose
\* Content is a non-empty placeholder whatever the message's content, and
\* whose ToolCalls has one entry per tool call, in order, with its id and
\* name, and with Arguments the source arguments when those are empty and
\* "{}" otherwise.
C15_AssistantToolCalls ==
    Converted =>
        \A i \in 1..Len(prompt_messages) :
            LET m == prompt_messages[i]
                d == dict_list.list[i]
            IN (m.kind = "assistant" /\ Len(m.tool_calls) >= 1) =>
                   /\ IsStr(d.Content) /\ Len(d.Content.str) > 0
                   /\ Len(d.ToolCalls) = Len(m.tool_calls)
                   /\ \A k \in 1..Len(m.tool_calls) :
                        /\ d.ToolCalls[k].Id = m.tool_calls[k].id
                        /\ d.ToolCalls[k].Function.Name = m.tool_calls[k].function.name
                        /\ d.ToolCalls[k].Function.Arguments =
                               IF m.tool_calls[k].function.arguments = <<>>
                               THEN m.tool_calls[k].function.arguments
                               ELSE <<"{}">>

\* an assistant message without content and with two tool calls, the first
\* with empty arguments and the second with arguments, has been converted
C15_Witness ==
    /\ Converted
    /\ \E i \in 1..Len(prompt_messages) :
         LET m == prompt_messages[i] IN
         /\ m.kind = "assistant"
         /\ m.content = PyNone
         /\ Len(m.tool_calls) = 2
         /\ m.tool_calls[1].function.arguments = <<>>
         /\ m.tool_calls[2].function.arguments = <<"{\"a\": 1}">>

----------------------------------------------------------------------------
(* TencentClsTool._invoke, YunApiClient.send                               *)
(* (api/core/tools/provider/builtin/tencent_cloud) and                     *)
(* HunyuanLargeLanguageModel.validate_credentials                          *)

\* ChecksWithoutQuery: Checks with the check of query left out
ChecksWithoutQuery ==
    << [dict |-> "credentials", key |-> "secret_id",
        message |-> <<"invalid tencent cls secret_id">>],
       [dict |-> "credentials", key |-> "secret_key",
        message |-> <<"invalid tencent cls secret_key">>],
       [dict |-> "parameters", key |-> "topicid", message |-> <<"Please input topicid">>],
       [dict |-> "parameters", key |-> "region", message |-> <<"Please input region">>],
       [dict |-> "parameters", key |-> "from", message |-> <<"Please input from">>],
       [dict |-> "parameters", key |-> "to", message |-> <<"Please input to">>] >>

\* the checks "x = d.get(key, ""); if not x: raise ValueError(message)", in
\* the order of the code
Checks ==
    << [dict |-> "credentials", key |-> "secret_id",
        message |-> <<"invalid tencent cls secret_id">>],
       [dict |-> "credentials", key |-> "secret_key",
        message |-> <<"invalid tencent cls secret_key">>],
       [dict |-> "parameters", key |-> "topicid", message |-> <<"Please input topicid">>],
       [dict |-> "parameters", key |-> "query", message |-> <<"Please input query">>],
       [dict |-> "parameters", key |-> "region", message |-> <<"Please input region">>],
       [dict |-> "parameters", key |-> "from", message |-> <<"Please input from">>],
       [dict |-> "parameters", key |-> "to", message |-> <<"Please input to">>] >>

\* the first check that fails, 0 when none does
RECURSIVE FirstFailed(_, _, _)
FirstFailed(credentials, parameters, k) ==
    IF k > Len(Checks) THEN 0
    ELSE LET d == IF Checks[k].dict = "credentials" THEN credentials ELSE parameters
         IN IF Get(d, Checks[k].key, <<>>) = <<>> THEN k
            ELSE FirstFailed(credentials, parameters, k + 1)

\* parser.isoparse(rfc3339) of rfc3339_to_unix_timestamp succeeds
IsRfc3339(s) == s \in {<<"1970-01-01T00:00:00Z">>, <<"1970-01-01T00:00:01Z">>}

\* rfc3339_to_unix_timestamp(rfc3339): int(dt.timestamp() * 1000)
Rfc3339ToUnixTimestamp(s) == IF s = <<"1970-01-01T00:00:00Z">> THEN 0 ELSE 1000

\* the value a credential or parameter has when it is given and not empty
ValueOf ==
    [secret_id |-> <<"AKID">>, secret_key |-> <<"k">>, topicid |-> <<"t-1">>,
     query |-> <<"*">>, region |-> <<"ap-guangzhou">>,
     from |-> <<"1970-01-01T00:00:00Z">>, to |-> <<"1970-01-01T00:00:01Z">>]

\* the dicts over keys: each key missing, "" or its value; from and to may
\* also hold a text that is not RFC 3339
DictsOver(keys) ==
    UNION { { [k \in K |-> CASE c[k] = "empty" -> <<>>
                             [] c[k] = "bad" -> <<"yesterday">>
                             [] OTHER -> ValueOf[k]] :
              c \in { c \in [K -> {"empty", "value", "bad"}] :
                        \A k \in K : c[k] = "bad" => k \in {"from", "to"} } } :
            K \in SUBSET keys }

\* json.dumps of a list of strings
RECURSIVE DumpsItems(_, _)
DumpsItems(l, k) ==
    IF k > Len(l) THEN <<>>
    ELSE (IF k > 1 THEN <<", ">> ELSE <<>>) \o <<"\"">> \o l[k] \o <<"\"">>
             \o DumpsItems(l, k + 1)

DumpsList(l) == <<"[">> \o DumpsItems(l, 1) \o <<"]">>

\* what client.send can do: raise from the connection (OSError), raise from
\* json.loads(resp.read()) (JSONDecodeError), or return the decoded envelope
SendOutcomes ==
    { [raise |-> "OSError", ret |-> EmptyDict],
      [raise |-> "JSONDecodeError", ret |-> EmptyDict],
      [raise |-> "", ret |-> [Response |-> [Results |-> <<<<"l1">>, <<"l2">>>>,
                                            RequestId |-> <<"r">>]]],
      [raise |-> "", ret |-> [Response |-> [Error |-> [Code |-> <<"AuthFailure">>,
                                                      Message |-> <<"bad topic">>],
                                            RequestId |-> <<"r">>]]],
      [raise |-> "", ret |-> [Response |-> [Error |-> [Code |-> <<"Partial">>,
                                                      Message |-> <<"limit">>],
                                            Results |-> <<<<"l1">>>>]]],
      [raise |-> "", ret |-> [Response |-> [RequestId |-> <<"r">>]]],
      [raise |-> "", ret |-> EmptyDict] }

\* int(time.time())
Clock == {0, 1}

\* lines 61-66 on the envelope resp: the text returned, or the exception
\* raised inside the try
ReadEnvelope(resp) ==
    IF "Response" \notin DOMAIN resp
    THEN \* 'Error' in None
         [raise |-> "TypeError", text |-> <<>>, results_read |-> FALSE]
    ELSE IF "Error" \in DOMAIN resp["Response"]
    THEN [raise |-> "", text |-> resp["Response"]["Error"]["Message"],
          results_read |-> FALSE]
    ELSE IF "Results" \notin DOMAIN resp["Response"]
    THEN [raise |-> "KeyError", text |-> <<>>, results_read |-> FALSE]
    ELSE [raise |-> "", text |-> DumpsList(resp["Response"]["Results"]),
          results_read |-> TRUE]

\* the tool before its invocation
NewTool(credentials, parameters) ==
    [pc |-> "idle", err |-> "", err_text |-> <<>>, message |-> PyNone,
     credentials |-> credentials, parameters |-> parameters,
     signed |-> 0, sent |-> 0, authorization |-> <<>>,
     resp |-> PyNone, results_read |-> FALSE]

\* raise ValueError(text)
ToolRaise(t, text) == [t EXCEPT !.pc = "raised", !.err = "ValueError", !.err_text = text]

\* TencentClsTool._invoke(user_id, tool_parameters)
ToolInvoke ==
    /\ tool.pc = "idle"
    /\ UNCHANGED <<invocation, two, calls, mapping, probe>>
    /\ LET failed == FirstFailed(tool.credentials, tool.parameters, 1) IN
       IF failed # 0
       THEN tool' = ToolRaise(tool, Checks[failed].message)
       ELSE IF ~IsRfc3339(Get(tool.parameters, "from", <<>>))
                 \/ ~IsRfc3339(Get(tool.parameters, "to", <<>>))
       THEN \* parser.isoparse raises ValueError, outside the try
            tool' = ToolRaise(tool, <<"isoparse">>)
       ELSE \E timestamp \in Clock, o \in SendOutcomes :
            LET payload ==
                    [TopicId |-> Get(tool.parameters, "topicid", <<>>),
                     From |-> Rfc3339ToUnixTimestamp(Get(tool.parameters, "from", <<>>)),
                     To |-> Rfc3339ToUnixTimestamp(Get(tool.parameters, "to", <<>>)),
                     Query |-> Get(tool.parameters, "query", <<>>),
                     Sort |-> <<"asc">>,
                     Limit |-> 150]
                \* YunApiClient.send("SearchLog", payload)
                authorization ==
                    GetAuthorizationHeader(<<"cls">>,
                        Get(tool.credentials, "secret_id", <<>>),
                        Get(tool.credentials, "secret_key", <<>>), timestamp,
                        <<"cls.tencentcloudapi.com">>, <<"S", "earch", "L", "og">>,
                        <<ToString(payload)>>)
                sent == [tool EXCEPT !.signed = 1, !.sent = 1,
                                     !.authorization = authorization]
                r == ReadEnvelope(o.ret)
            IN IF o.raise # ""
               THEN tool' = ToolRaise(sent, <<"invoke tencent cls failed: ", o.raise>>)
               ELSE IF r.raise # ""
               THEN tool' = ToolRaise([sent EXCEPT !.resp = o.ret],
                                      <<"invoke tencent cls failed: ", r.raise>>)
               ELSE tool' = [sent EXCEPT !.pc = "returned",
                                         !.resp = o.ret,
                                         !.results_read = r.results_read,
                                         !.message = [type |-> "text", text |-> r.text]]

\* CaughtByProbe catching nothing
CaughtByProbeNever(exc) == FALSE

\* "except Exception as e" of validate_credentials catches exc
CaughtByProbe(exc) == exc \in {"KeyError", "ConnectionError", "Exception"}

\* the exception that leaves validate_credentials when exc is raised in its try
ProbeError(exc) ==
    IF CaughtByProbe(exc) THEN "CredentialsValidateFailedError" ELSE exc

NewProbe == [pc |-> "idle", err |-> "", cause |-> "", posts |-> 0, status |-> 0]

\* validate_credentials(model, credentials)
ValidateCredentials ==
    /\ probe.pc = "idle"
    /\ UNCHANGED <<invocation, two, calls, mapping, tool>>
    /\ IF ~has_api_key
       THEN \* credentials['api_key']
            probe' = [probe EXCEPT !.pc = "raised", !.cause = "KeyError",
                                   !.err = ProbeError("KeyError")]
       ELSE \/ \* requests.post raises
               probe' = [probe EXCEPT !.pc = "raised", !.posts = 1,
                                      !.cause = "ConnectionError",
                                      !.err = ProbeError("ConnectionError")]
            \/ \E status_code \in StatusCodes :
                 IF BadStatus(status_code)
                 THEN probe' = [probe EXCEPT !.pc = "raised", !.posts = 1,
                                             !.status = status_code,
                                             !.cause = "Exception",
                                             !.err = ProbeError("Exception")]
                 ELSE probe' = [probe EXCEPT !.pc = "returned", !.posts = 1,
                                             !.status = status_code]

InitOps ==
    /\ InvocationInit /\ TwoIdle /\ SignIdle /\ MappingIdle
    /\ \E credentials \in DictsOver({"secret_id", "secret_key"}),
          parameters \in DictsOver({"topicid", "query", "region", "from", "to"}) :
         tool = NewTool(credentials, parameters)
    /\ probe = NewProbe

NextOps == ToolInvoke \/ Invoke \/ ValidateCredentials

SpecOps == InitOps /\ [][NextOps]_vars

\* the envelope of the tool's request reports an error
EnvelopeError ==
    /\ tool.resp # PyNone
    /\ "Response" \in DOMAIN tool.resp
    /\ "Error" \in DOMAIN tool.resp["Response"]

\* C17: when the request of TencentClsTool._invoke was answered with an
\* envelope that has Error inside Response, the invocation has ended in an
\* error that carries the provider's message, not in a returned message, and
\* Results was not read.
C17_ApiError ==
    (tool.pc # "idle" /\ EnvelopeError)
        => /\ tool.pc = "raised"
           /\ \E k \in 1..Len(tool.err_text) :
                <<tool.err_text[k]>> = tool.resp["Response"]["Error"]["Message"]
           /\ ~tool.results_read

\* the request was answered with an Error envelope and the tool has returned
\* the provider's message as a text message
C17_Returned ==
    /\ EnvelopeError
    /\ tool.pc = "returned"
    /\ tool.message.text = tool.resp["Response"]["Error"]["Message"]

\* one of the seven required credentials and parameters is missing or empty
ConfigIncomplete ==
    \/ \E k \in {"secret_id", "secret_key"} : Get(tool.credentials, k, <<>>) = <<>>
    \/ \E k \in {"topicid", "query", "region", "from", "to"} :
         Get(tool.parameters, k, <<>>) = <<>>

\* C18: an invocation of the tool with a required credential or parameter
\* missing or empty has failed without computing a signature or sending a
\* request, and an invocation of the model without api_key has failed
\* without a POST.
C18_ConfigBeforeNetwork ==
    /\ (tool.pc # "idle" /\ ConfigIncomplete)
           => /\ tool.pc = "raised"
              /\ tool.err = "ValueError"
              /\ tool.signed = 0
              /\ tool.sent = 0
    /\ (pc # "idle" /\ ~has_api_key)
           => /\ pc = "raised"
              /\ posts = 0

\* the tool has failed on an empty query, everything else being given, and
\* the model has failed on the missing api_key
C18_Witness ==
    /\ tool.pc = "raised"
    /\ "query" \in DOMAIN tool.parameters
    /\ \A k \in DOMAIN ValueOf :
         Get(tool.credentials @@ tool.parameters, k, <<>>) =
             IF k = "query" THEN <<>> ELSE ValueOf[k]
    /\ pc = "raised"
    /\ ~has_api_key

\* C19: a probe that failed (api_key missing, connection failure, status other
\* than 200) has raised CredentialsValidateFailedError and nothing else; a
\* probe that returned got status 200; at most one request was issued.
C19_Probe ==
    probe.pc # "idle" =>
        /\ probe.posts <= 1
        /\ probe.cause # "" => probe.pc = "raised"
        /\ probe.pc = "raised" => probe.err = "CredentialsValidateFailedError"
        /\ probe.pc = "returned" => (probe.posts = 1 /\ probe.status = 200)

\* the probe's request failed on the connection
C19_Witness ==
    /\ probe.pc = "raised"
    /\ probe.cause = "ConnectionError"
    /\ probe.posts = 1

----------------------------------------------------------------------------
(* The completion of tool calls *)

\* the tool call has a name and arguments
Complete(tc) == Len(tc.function.name) > 0 /\ Len(tc.function.arguments) > 0

\* the name and the arguments of the open tool call once the fragment f is
\* taken in: appended when f has the id of the open tool call, f's own else
Accumulated(tc, f) ==
    IF tc # PyNone /\ tc.id = f.id
    THEN [id |-> f.id,
          function |-> [name |-> tc.function.name \o f.function.name,
                        arguments |-> tc.function.arguments \o f.function.arguments]]
    ELSE [id |-> f.id,
          function |-> [name |-> f.function.name, arguments |-> f.function.arguments]]

\* this step handles an event that carries a tool-call fragment and does not
\* end the turn
FragmentStep ==
    /\ pc = "streaming" /\ pc' = "streaming"
    /\ Len(events') = Len(events) + 1
    /\ Len(FragsOf(e)) > 0
    /\ NoFinish(e)

\* C20: after each event, no tool call is open or the open one lacks a name or
\* arguments; and the step in which the accumulated name and arguments become
\* both non-empty leaves no tool call open and appends that tool call to the
\* completed list, once (the list grows by it, and by the tool call it
\* displaced if the fragment had another id).
C20_Completion ==
    /\ [](tool_call = PyNone \/ ~Complete(tool_call))
    /\ [][ FragmentStep =>
             LET acc == Accumulated(tool_call, FragsOf(e)[1])
                 displaced == IF tool_call # PyNone /\ tool_call.id # acc.id
                              THEN <<tool_call>> ELSE <<>>
             IN Complete(acc) =>
                    /\ tool_call' = PyNone
                    /\ Len(tool_calls') = Len(tool_calls) + Len(displaced) + 1
                    /\ SubSeq(tool_calls', 1, Len(tool_calls) + Len(displaced))
                           = tool_calls \o displaced
                    /\ LET moved == tool_calls'[Len(tool_calls')] IN
                       /\ moved.id = acc.id
                       /\ moved.function.name = acc.function.name
                       /\ moved.function.arguments = acc.function.arguments
         ]_vars

\* two tool calls have completed and a third is open with a name only
C20_Witness ==
    /\ Len(tool_calls) = 2
    /\ \A k \in 1..2 : Complete(tool_calls[k])
    /\ tool_call # PyNone
    /\ Len(tool_call.function.name) > 0
    /\ Len(tool_call.function.arguments) = 0

----------------------------------------------------------------------------
(* The order of tool calls, skipped events and the end of a turn *)

\* the ids of the fragments of events i..k, one fragment per event
RECURSIVE FragIds(_, _)
FragIds(i, k) ==
    IF i > k THEN <<>>
    ELSE <<FragsOf(events[i])[1].id>> \o FragIds(i + 1, k)

\* s without the elements that repeat their predecessor
RECURSIVE Dedup(_)
Dedup(s) ==
    IF Len(s) <= 1 THEN s
    ELSE LET d == Dedup(SubSeq(s, 1, Len(s) - 1)) IN
         IF s[Len(s)] = s[Len(s) - 1] THEN d ELSE Append(d, s[Len(s)])

\* the ids come one after another: none returns after another id
OneAfterAnother(s) == Cardinality(Range(Dedup(s))) = Len(Dedup(s))

\* the events i..k each carry one fragment and no finish_reason
FragmentsOnly(i, k) ==
    /\ k >= i
    /\ \A j \in i..k : Len(FragsOf(events[j])) = 1 /\ NoFinish(events[j])

\* C21: when the events of a turn carry fragments of several tool calls, one
\* id after another, and then finish_reason "tool_calls", the chunk of that
\* last event lists the tool calls in the order in which their first
\* fragments arrived.
C21_SwitchOrder ==
    \A c \in Range(chunks) :
        LET first == TurnStart(c.index + 1)
            ids == FragIds(first, c.index)
        IN (/\ ChunkFinishIs(c, "tool_calls")
            /\ FragmentsOnly(first, c.index)
            /\ OneAfterAnother(ids)
            /\ Len(Dedup(ids)) >= 2)
           => Dedup([k \in 1..Len(c.tool_calls) |-> c.tool_calls[k].id]) = Dedup(ids)

\* this step hands the event e to _handle_stream_chat_response
EventStep == pc = "streaming" /\ Len(events') = Len(events) + 1

\* the event's data is the sentinel, or a document without choices
Skipped(event) ==
    /\ "data" \in DOMAIN event
    /\ \/ EndsWith(event["data"], "[DONE]")
       \/ Decoded(event) /\ ~HasChoice(event)

\* C22: an event whose data is [DONE], or decodes to a document with no
\* choices or an empty choices list, yields no chunk and leaves the open tool
\* call and the completed list as they were; every other event whose data
\* decodes yields exactly one chunk.
C22_SkippedEvents ==
    [][ EventStep =>
          /\ Skipped(e) => /\ chunks' = chunks
                           /\ tool_call' = tool_call
                           /\ tool_calls' = tool_calls
          /\ (Decoded(e) /\ HasChoice(e)) =>
                 /\ Len(chunks') = Len(chunks) + 1
                 /\ SubSeq(chunks', 1, Len(chunks)) = chunks
      ]_vars

\* C23: one event is emitted per blank line read; the event of a block without
\* a data line (an empty block, or one of comment, event, id, retry or unknown
\* lines only) has no data, and the others have; an event without data is the
\* last one handled: the stream has ended with KeyError and no chunk was
\* yielded for that event.
C23_EventsWithoutData ==
    /\ Len(events) = NumBlank(lines)
    /\ \A k \in 1..Len(events) :
         /\ ("data" \notin DOMAIN events[k]) = (FieldLines(Block(k), "data") = <<>>)
         /\ "data" \notin DOMAIN events[k] =>
                /\ k = Len(events)
                /\ pc = "raised"
                /\ err = "KeyError"
                /\ \A c \in Range(chunks) : c.index < k - 1

\* a chunk was yielded for the first event; the second block holds lines but
\* no data line, and its event has ended the stream
C23_Witness ==
    /\ Len(events) = 2
    /\ Len(chunks) = 1
    /\ Len(Block(2)) > 0
    /\ "data" \notin DOMAIN events[2]
    /\ pc = "raised"

\* the step handles one more event and yields a chunk for it
ChunkStep == EventStep /\ Len(chunks') = Len(chunks) + 1

\* the ids of the fragments of events i..k
FragIdSet(i, k) ==
    { FragsOf(events[j])[1].id : j \in { n \in i..k : Len(FragsOf(events[n])) > 0 } }

\* the ids of the tool calls of chunk c
ChunkIds(c) == { c.tool_calls[k].id : k \in 1..Len(c.tool_calls) }

====
